---- MODULE Spec2Model ----
(***************************************************************************)
(* A model of the JSON-RPC 2.0 client of rust-jsonrpc:                     *)
(*   - src/src/lib.rs            Request, Response and the extraction      *)
(*                               methods of Response                       *)
(*   - src/src/reqwest_client.rs Client: new, execute, build_request,      *)
(*                               last_nonce                                *)
(* Two specifications are given.  Spec is the Client shared by several     *)
(* threads.  SpecExtract applies the methods of Response to every Response *)
(* of a bounded set.                                                       *)
(***************************************************************************)
EXTENDS Integers, Sequences, FiniteSets, TLC

VARIABLES
    nonce,       \* Client.nonce: the u64 behind the Mutex
    lockHolder,  \* the thread that holds the MutexGuard of Client.nonce
    pc,          \* pc[t]: where thread t is inside a Client method
    req,         \* req[t]: the Request thread t owns (Option)
    frame,       \* frame[t]: the locals of the call thread t is inside
    ret,         \* what the latest call of a Client method returned, and to whom
    built,       \* history: the ids build_request returned, in return order
    response,    \* the Response the extraction methods are applied to
    moved,       \* whether `response` was consumed (moved out of)
    out,         \* what the last extraction method returned
    made,        \* whether Client::new has run, and whether it returned
    user,        \* Client.user
    pass         \* Client.pass

vars ==
    <<nonce, lockHolder, pc, req, frame, ret, built, response, moved, out,
      made, user, pass>>
clientVars == <<nonce, lockHolder, pc, req, frame, ret, built>>
extractVars == <<response, moved, out>>
configVars == <<made, user, pass>>

(***************************************************************************)
(* Bounds                                                                  *)
(***************************************************************************)
\* build_request is called at most MaxCalls times in a behaviour.  The
\* counter is a u64 that starts at 0, so within this bound `*nonce += 1`
\* never overflows and the Mutex is never poisoned.
MaxCalls == 2

Threads == {"t1", "t2"}
NoThread == "none"

(***************************************************************************)
(* Option<T> and Result<T, E>                                              *)
(***************************************************************************)
None == [some |-> FALSE]
Some(x) == [some |-> TRUE, v |-> x]

Ok(x) == [ok |-> TRUE, v |-> x]
Err(e) == [ok |-> FALSE, err |-> e]

(***************************************************************************)
(* strason::Json values: a tag followed by a payload.  Two values are      *)
(* equal iff tag and payload are, so the number 1 and the string "1"       *)
(* differ.                                                                 *)
(***************************************************************************)
JNull == <<"null", "null">>
JBool(b) == <<"bool", b>>
JNum(n) == <<"number", n>>
JStr(s) == <<"string", s>>
JArr(s) == <<"array", s>>

JType(json) == json[1]
JVal(json) == json[2]

\* Json::from(u64): the JSON number of that value
JsonFromU64(n) == JNum(n)

(***************************************************************************)
(* error::Error, by the variants the sources name                          *)
(***************************************************************************)
ErrJson(cause) == [kind |-> "Json", cause |-> cause]
ErrRpc(e) == [kind |-> "Rpc", error |-> e]
ErrNoErrorOrResult == [kind |-> "NoErrorOrResult"]
ErrVersionMismatch == [kind |-> "VersionMismatch"]
ErrNonceMismatch == [kind |-> "NonceMismatch"]
\* the conversion `?` applies to the reqwest::Error of ReqwestClient::execute
ErrTransport == [kind |-> "Transport"]

(***************************************************************************)
(* Request and Response                                                    *)
(***************************************************************************)
Request(method, params, id, jsonrpc) ==
    [method |-> method, params |-> params, id |-> id, jsonrpc |-> jsonrpc]

Response(result, error, id, jsonrpc) ==
    [result |-> result, error |-> error, id |-> id, jsonrpc |-> jsonrpc]

RpcError(code, message, data) ==
    [code |-> code, message |-> message, data |-> data]

\* a JSON object: v maps the names of the fields that are present to values
JObj(fields) == <<"object", fields>>

HasField(json, k) == k \in DOMAIN JVal(json)
Field(json, k) == JVal(json)[k]

(***************************************************************************)
(* Deserialisation of a reply body into Response (#[derive(Deserialize)]). *)
(* An Option field that is absent, or present as JSON null, becomes None.  *)
(***************************************************************************)
\* Option<Json>: absent or null is None, any other value v is Some(v)
OptionField(json, k) ==
    IF HasField(json, k) /\ Field(json, k) # JNull THEN Some(Field(json, k)) ELSE None

\* whether `json` has the shape of an error::RpcError
IsRpcErrorShape(json) ==
    /\ JType(json) = "object"
    /\ HasField(json, "code") /\ JType(Field(json, "code")) = "number"
    /\ HasField(json, "message") /\ JType(Field(json, "message")) = "string"

DeserializeRpcError(json) ==
    RpcError(JVal(Field(json, "code")), JVal(Field(json, "message")), OptionField(json, "data"))

\* whether `json` has the shape of a Response
IsResponseShape(json) ==
    /\ JType(json) = "object"
    /\ HasField(json, "id")
    /\ OptionField(json, "jsonrpc").some => JType(Field(json, "jsonrpc")) = "string"
    /\ OptionField(json, "error").some => IsRpcErrorShape(Field(json, "error"))

\* Json::into_deserialize::<Response>()
DeserializeResponse(json) ==
    IF ~IsResponseShape(json)
    THEN Err(ErrJson("invalid type"))
    ELSE Ok(Response(
            OptionField(json, "result"),
            IF OptionField(json, "error").some
                THEN Some(DeserializeRpcError(Field(json, "error")))
                ELSE None,
            Field(json, "id"),
            IF OptionField(json, "jsonrpc").some
                THEN Some(JVal(Field(json, "jsonrpc")))
                ELSE None))

\* whether `json` has the shape of a Request
IsRequestShape(json) ==
    /\ JType(json) = "object"
    /\ HasField(json, "method") /\ JType(Field(json, "method")) = "string"
    /\ HasField(json, "params") /\ JType(Field(json, "params")) = "array"
    /\ HasField(json, "id")
    /\ OptionField(json, "jsonrpc").some => JType(Field(json, "jsonrpc")) = "string"

\* Json::into_deserialize::<Request>()
DeserializeRequest(json) ==
    IF ~IsRequestShape(json)
    THEN Err(ErrJson("invalid type"))
    ELSE Ok(Request(
            JVal(Field(json, "method")),
            JVal(Field(json, "params")),
            Field(json, "id"),
            IF OptionField(json, "jsonrpc").some
                THEN Some(JVal(Field(json, "jsonrpc")))
                ELSE None))

(***************************************************************************)
(* Serialisation (#[derive(Serialize)]): every field is written; an Option *)
(* is written as its value when it is Some and as JSON null when it is     *)
(* None.                                                                   *)
(***************************************************************************)
\* Option<Json>
SerializeOption(o) == IF o.some THEN o.v ELSE JNull

\* Option<String>
SerializeOptionString(o) == IF o.some THEN JStr(o.v) ELSE JNull

\* error::RpcError
SerializeRpcError(e) ==
    JObj([code |-> JNum(e.code), message |-> JStr(e.message),
          data |-> SerializeOption(e.data)])

\* Json::from_serialize(&request)
SerializeRequest(request) ==
    JObj([method |-> JStr(request.method), params |-> JArr(request.params),
          id |-> request.id, jsonrpc |-> SerializeOptionString(request.jsonrpc)])

\* a variant that writes no result next to an error
SerializeResponseErrorWins(resp) ==
    JObj([result |-> IF resp.error.some THEN JNull ELSE SerializeOption(resp.result),
          error |-> IF resp.error.some
                        THEN SerializeRpcError(resp.error.v) ELSE JNull,
          id |-> resp.id, jsonrpc |-> SerializeOptionString(resp.jsonrpc)])

\* Json::from_serialize(&response)
SerializeResponse(resp) ==
    JObj([result |-> SerializeOption(resp.result),
          error |-> IF resp.error.some
                        THEN SerializeRpcError(resp.error.v) ELSE JNull,
          id |-> resp.id, jsonrpc |-> SerializeOptionString(resp.jsonrpc)])

\* the bytes of a reply body: a JSON text, or bytes that are no JSON text
Garbage == [parses |-> FALSE]
JsonText(json) == [parses |-> TRUE, json |-> json]

\* Json::from_reader(&mut stream)
FromReader(body) ==
    IF body.parses THEN Ok(body.json) ELSE Err(ErrJson("parse error"))

(***************************************************************************)
(* Client::execute, after the transport call returned                      *)
(***************************************************************************)
\* a variant that lets every reply with a jsonrpc field pass
VersionOkAnyPresent(resp) ==
    resp.jsonrpc.some

\* a variant that lets a reply without jsonrpc pass
VersionOkAbsentAccepted(resp) ==
    ~resp.jsonrpc.some \/ resp.jsonrpc.v = "2.0"

\* match response.jsonrpc { Some(ref jsonrpc) if &*jsonrpc == "2.0" => {} ... }
VersionOk(resp) ==
    resp.jsonrpc.some /\ resp.jsonrpc.v = "2.0"

\* a variant that compares the JSON types of the ids only
NonceOkTypeOnly(request, resp) ==
    JType(resp.id) = JType(request.id)

\* response.id != request.id, negated
NonceOk(request, resp) ==
    resp.id = request.id

\* a variant with the two checks in the other order
ValidateNonceFirst(request, resp) ==
    IF ~NonceOk(request, resp) THEN Err(ErrNonceMismatch)
    ELSE IF ~VersionOk(resp) THEN Err(ErrVersionMismatch)
    ELSE Ok(resp)

\* the two checks at the end of execute, in their order
Validate(request, resp) ==
    IF ~VersionOk(resp) THEN Err(ErrVersionMismatch)
    ELSE IF ~NonceOk(request, resp) THEN Err(ErrNonceMismatch)
    ELSE Ok(resp)

\* a call that does not return: the thread panicked
Panicked == [panicked |-> TRUE]

\* a variant that unwraps what from_reader returns
ExecuteOutcomeUnwrap(request, sendOk, body) ==
    IF ~sendOk THEN Err(ErrTransport)
    ELSE LET parsed == FromReader(body) IN
         IF ~parsed.ok THEN Panicked
         ELSE LET decoded == DeserializeResponse(parsed.v) IN
              IF ~decoded.ok THEN Err(decoded.err)
              ELSE Validate(request, decoded.v)

\* what execute returns for a given outcome of the transport call
ExecuteOutcome(request, sendOk, body) ==
    IF ~sendOk THEN Err(ErrTransport)
    ELSE LET parsed == FromReader(body) IN
         IF ~parsed.ok THEN Err(parsed.err)
         ELSE LET decoded == DeserializeResponse(parsed.v) IN
              IF ~decoded.ok THEN Err(decoded.err)
              ELSE Validate(request, decoded.v)

(***************************************************************************)
(* Inputs of the Client: the arguments of build_request and what the       *)
(* transport call of execute comes back with                               *)
(***************************************************************************)
Methods == {"test", "stop"}
ParamLists == {<<JNull, JStr("test2")>>, <<JStr("test2"), JNull>>}

ReplyIds == {JNum(n) : n \in 1..MaxCalls} \cup {JStr("1"), JNull}
ReplyVersions == {<<>>, [jsonrpc |-> JStr("2.0")], [jsonrpc |-> JStr("1.0")]}
ReplyResults == {<<>>, [result |-> JBool(TRUE)]}
ReplyErrors ==
    {<<>>,
     [error |-> JObj([code |-> JNum(-77), message |-> JStr("test4")])]}

\* the JSON objects a server replies with
ReplyObjects ==
    {JObj([id |-> i] @@ j @@ r @@ e) :
        i \in ReplyIds, j \in ReplyVersions, r \in ReplyResults, e \in ReplyErrors}

\* the reply bodies: no JSON, JSON that is no Response, a Response
Bodies ==
    {Garbage, JsonText(JStr("hello")), JsonText(JObj([result |-> JBool(TRUE)]))}
        \cup {JsonText(o) : o \in ReplyObjects}

\* the bodies a failed transport call never delivers
LostBodies ==
    {Garbage,
     JsonText(JObj([id |-> JNum(1), jsonrpc |-> JStr("2.0"), result |-> JBool(TRUE)])),
     JsonText(JObj([id |-> JNull, jsonrpc |-> JStr("1.0"), result |-> JBool(TRUE)]))}

\* what the transport call of execute can come back with: <<sendOk, body>>
Outcomes ==
    {<<TRUE, b>> : b \in Bodies} \cup {<<FALSE, b>> : b \in LostBodies}

(***************************************************************************)
(* The state after Client::new, before any call                            *)
(***************************************************************************)
NoFrame == [call |-> "none"]
NoRet == [op |-> "none"]
NoOut == [op |-> "none"]

\* a Response nobody extracts from: the extraction state under Spec
IdleResponse == Response(None, None, JNull, None)

\* Client::new(url, None, None) has returned
InitClient ==
    /\ made = "yes"
    /\ user = None
    /\ pass = None
    /\ nonce = 0
    /\ lockHolder = NoThread
    /\ pc = [t \in Threads |-> "idle"]
    /\ req = [t \in Threads |-> None]
    /\ frame = [t \in Threads |-> NoFrame]
    /\ ret = NoRet
    /\ built = <<>>

Init ==
    /\ InitClient
    /\ response = IdleResponse
    /\ moved = FALSE
    /\ out = NoOut

(***************************************************************************)
(* Client::build_request                                                   *)
(***************************************************************************)
InBuild(t) == pc[t] \in {"br_locked", "br_incremented"}

\* the build_request calls that have begun
Started == Len(built) + Cardinality({t \in Threads : InBuild(t)})

\* a variant without mutual exclusion
CanLockAlways(t) == TRUE

\* Mutex::lock returns the guard only while no thread holds one
CanLock(t) == lockHolder = NoThread

\* let mut nonce = self.nonce.lock().unwrap();
\* (overlap remembers whether an execute was waiting on the transport then)
BrLock(t, name, params) ==
    /\ pc[t] = "idle"
    /\ Started < MaxCalls
    /\ CanLock(t)
    /\ lockHolder' = t
    /\ pc' = [pc EXCEPT ![t] = "br_locked"]
    /\ frame' = [frame EXCEPT ![t] =
            [call |-> "build_request", name |-> name, params |-> params,
             overlap |-> \E u \in Threads : pc[u] = "ex_wait"]]
    /\ UNCHANGED <<nonce, req, ret, built, extractVars, configVars>>

\* *nonce += 1;   (inc remembers the value this call's increment produced)
BrIncrement(t) ==
    /\ pc[t] = "br_locked"
    /\ nonce' = nonce + 1
    /\ pc' = [pc EXCEPT ![t] = "br_incremented"]
    /\ frame' = [frame EXCEPT ![t] =
            [call |-> "build_request", name |-> frame[t].name,
             params |-> frame[t].params, overlap |-> frame[t].overlap,
             inc |-> nonce + 1]]
    /\ UNCHANGED <<lockHolder, req, ret, built, extractVars, configVars>>

\* a variant whose id is the counter value before the increment
BuiltRequestStaleId(name, params, n) ==
    Request(name, params, JsonFromU64(n - 1), Some("2.0"))

\* Request { method: name.to_string(), params, id: Json::from(*nonce), .. }
BuiltRequest(name, params, n) ==
    Request(name, params, JsonFromU64(n), Some("2.0"))

\* the Request is built from the guarded counter, then the guard is dropped
\* (name, params and inc remember the call's arguments and its increment)
BrReturn(t) ==
    /\ pc[t] = "br_incremented"
    /\ LET request == BuiltRequest(frame[t].name, frame[t].params, nonce) IN
        /\ req' = [req EXCEPT ![t] = Some(request)]
        /\ built' = Append(built, request.id)
        /\ ret' = [op |-> "build_request", thread |-> t,
                   name |-> frame[t].name, params |-> frame[t].params,
                   inc |-> frame[t].inc, overlap |-> frame[t].overlap,
                   val |-> request]
    /\ lockHolder' = NoThread
    /\ pc' = [pc EXCEPT ![t] = "idle"]
    /\ frame' = [frame EXCEPT ![t] = NoFrame]
    /\ UNCHANGED <<nonce, extractVars, configVars>>

(***************************************************************************)
(* Client::last_nonce                                                      *)
(***************************************************************************)
\* *self.nonce.lock().unwrap(): lock, read, drop the guard
\* (calls and busy remember how many build_request calls had returned and
\* whether one was under way)
LastNonce(t) ==
    /\ pc[t] = "idle"
    /\ CanLock(t)
    /\ ret' = [op |-> "last_nonce", thread |-> t, val |-> nonce,
               calls |-> Len(built), busy |-> \E u \in Threads : InBuild(u)]
    /\ UNCHANGED <<nonce, lockHolder, pc, req, frame, built, extractVars, configVars>>

(***************************************************************************)
(* Client::execute                                                         *)
(***************************************************************************)
\* a variant that takes the guard of the counter and keeps it while waiting
ExecuteSendHoldingLock(t) ==
    /\ pc[t] = "idle"
    /\ req[t].some
    /\ CanLock(t)
    /\ lockHolder' = t
    /\ frame' = [frame EXCEPT ![t] =
            [call |-> "execute", request |-> req[t].v, sends |-> 1]]
    /\ req' = [req EXCEPT ![t] = None]
    /\ pc' = [pc EXCEPT ![t] = "ex_wait"]
    /\ UNCHANGED <<nonce, ret, built, extractVars, configVars>>

\* a variant that draws a fresh nonce for the request it sends
ExecuteSendBumpsNonce(t) ==
    /\ pc[t] = "idle"
    /\ req[t].some
    /\ nonce' = nonce + 1
    /\ frame' = [frame EXCEPT ![t] =
            [call |-> "execute", request |-> req[t].v, sends |-> 1]]
    /\ req' = [req EXCEPT ![t] = None]
    /\ pc' = [pc EXCEPT ![t] = "ex_wait"]
    /\ UNCHANGED <<lockHolder, ret, built, extractVars, configVars>>

\* the request is moved into execute and serialised (a Request of strings
\* and Json values always serialises), the headers are set and the transport
\* call begins; the thread then blocks in ReqwestClient::execute, holding no
\* guard of the counter (sends counts the calls of ReqwestClient::execute)
ExecuteSend(t) ==
    /\ pc[t] = "idle"
    /\ req[t].some
    /\ frame' = [frame EXCEPT ![t] =
            [call |-> "execute", request |-> req[t].v, sends |-> 1]]
    /\ req' = [req EXCEPT ![t] = None]
    /\ pc' = [pc EXCEPT ![t] = "ex_wait"]
    /\ UNCHANGED <<nonce, lockHolder, ret, built, extractVars, configVars>>

\* a variant that sends the request once more when the transport call failed
ExecuteReturnRetrying(t, sendOk, body) ==
    /\ pc[t] = "ex_wait"
    /\ IF ~sendOk /\ frame[t].sends < 2
        THEN /\ frame' = [frame EXCEPT ![t] =
                    [call |-> "execute", request |-> frame[t].request,
                     sends |-> frame[t].sends + 1]]
             /\ UNCHANGED <<ret, pc>>
        ELSE /\ ret' = [op |-> "execute", thread |-> t,
                        request |-> frame[t].request,
                        sendOk |-> sendOk, body |-> body,
                        sends |-> frame[t].sends,
                        val |-> ExecuteOutcome(frame[t].request, sendOk, body)]
             /\ pc' = [pc EXCEPT ![t] = "idle"]
             /\ frame' = [frame EXCEPT ![t] = NoFrame]
    /\ UNCHANGED <<nonce, lockHolder, req, built, extractVars, configVars>>

\* the transport call comes back (failed, or with a reply body) and execute
\* runs to its return (request, sendOk and body remember the call's inputs)
ExecuteReturn(t, sendOk, body) ==
    /\ pc[t] = "ex_wait"
    /\ ret' = [op |-> "execute", thread |-> t, request |-> frame[t].request,
               sendOk |-> sendOk, body |-> body, sends |-> frame[t].sends,
               val |-> ExecuteOutcome(frame[t].request, sendOk, body)]
    /\ pc' = [pc EXCEPT ![t] = "idle"]
    /\ frame' = [frame EXCEPT ![t] = NoFrame]
    /\ UNCHANGED <<nonce, lockHolder, req, built, extractVars, configVars>>

Next ==
    \E t \in Threads :
        \/ \E name \in Methods, params \in ParamLists : BrLock(t, name, params)
        \/ BrIncrement(t)
        \/ BrReturn(t)
        \/ LastNonce(t)
        \/ ExecuteSend(t)
        \/ \E o \in Outcomes : ExecuteReturn(t, o[1], o[2])

Spec == Init /\ [][Next]_vars

(***************************************************************************)
(* Client::new, followed by the calls on the Client it returns             *)
(***************************************************************************)
Users == {None, Some("user")}
Passwords == {None, Some("secret")}

\* nothing is constructed yet
InitNew ==
    /\ made = "no"
    /\ user = None
    /\ pass = None
    /\ nonce = 0
    /\ lockHolder = NoThread
    /\ pc = [t \in Threads |-> "idle"]
    /\ req = [t \in Threads |-> None]
    /\ frame = [t \in Threads |-> NoFrame]
    /\ ret = NoRet
    /\ built = <<>>
    /\ response = IdleResponse
    /\ moved = FALSE
    /\ out = NoOut

\* debug_assert!(pass.is_none() || user.is_some()) is compiled only into a
\* build with debug assertions; Url::parse(url).unwrap() panics on a url that
\* does not parse.  The Client returned has nonce 0.
New(urlParses, u, p, debugAssertions) ==
    /\ made = "no"
    /\ IF debugAssertions /\ ~(~p.some \/ u.some)
        THEN made' = "panicked" /\ UNCHANGED <<user, pass>>
        ELSE IF ~urlParses
        THEN made' = "panicked" /\ UNCHANGED <<user, pass>>
        ELSE made' = "yes" /\ user' = u /\ pass' = p
    /\ UNCHANGED <<clientVars, extractVars>>

NextNew ==
    \/ \E urlParses \in BOOLEAN, u \in Users, p \in Passwords,
            debugAssertions \in BOOLEAN : New(urlParses, u, p, debugAssertions)
    \/ made = "yes" /\ Next

SpecNew == InitNew /\ [][NextNew]_vars

(***************************************************************************)
(* Response: result, into_result, check_error, is_none                     *)
(***************************************************************************)
\* the types T a result is extracted into
TargetTypes == {"bool", "String", "u64", "VecString", "Json"}

\* the value of type () that check_error returns on success
Unit == <<"unit", "()">>

IsStringArray(json) ==
    /\ JType(json) = "array"
    /\ \A i \in 1..Len(JVal(json)) : JType(JVal(json)[i]) = "string"

\* whether the JSON value deserialises into T
Deserializes(json, T) ==
    CASE T = "Json" -> TRUE
      [] T = "bool" -> JType(json) = "bool"
      [] T = "String" -> JType(json) = "string"
      [] T = "u64" -> JType(json) = "number" /\ JVal(json) >= 0
      [] T = "VecString" -> IsStringArray(json)

\* the value of type T the JSON value deserialises into
TypedValue(json, T) ==
    CASE T = "Json" -> <<T, json>>
      [] T = "VecString" ->
            <<T, [i \in 1..Len(JVal(json)) |-> JVal(JVal(json)[i])]>>
      [] OTHER -> <<T, JVal(json)>>

\* Json::into_deserialize::<T>(): the value, or strason's error
IntoDeserialize(json, T) ==
    IF Deserializes(json, T) THEN Ok(TypedValue(json, T)) ELSE Err("invalid type")

\* Result::map_err(Error::Json)
MapErrJson(r) == IF r.ok THEN r ELSE Err(ErrJson(r.err))

\* a variant that looks at result before error
ResultOfResultFirst(resp, T) ==
    IF resp.result.some THEN MapErrJson(IntoDeserialize(resp.result.v, T))
    ELSE IF resp.error.some THEN Err(ErrRpc(resp.error.v))
    ELSE Err(ErrNoErrorOrResult)

\* a variant that takes a result of JSON null for an absent one
ResultOfNullAsAbsent(resp, T) ==
    IF resp.error.some THEN Err(ErrRpc(resp.error.v))
    ELSE IF resp.result.some /\ resp.result.v # JNull
        THEN MapErrJson(IntoDeserialize(resp.result.v, T))
        ELSE Err(ErrNoErrorOrResult)

\* Response::result::<T>(&self)
ResultOf(resp, T) ==
    IF resp.error.some THEN Err(ErrRpc(resp.error.v))
    ELSE IF resp.result.some
        THEN MapErrJson(IntoDeserialize(resp.result.v, T))
        ELSE Err(ErrNoErrorOrResult)

\* a variant that looks at result before error
IntoResultOfResultFirst(resp, T) ==
    IF resp.result.some THEN MapErrJson(IntoDeserialize(resp.result.v, T))
    ELSE IF resp.error.some THEN Err(ErrRpc(resp.error.v))
    ELSE Err(ErrNoErrorOrResult)

\* Response::into_result::<T>(self)
IntoResultOf(resp, T) ==
    IF resp.error.some THEN Err(ErrRpc(resp.error.v))
    ELSE IF resp.result.some
        THEN MapErrJson(IntoDeserialize(resp.result.v, T))
        ELSE Err(ErrNoErrorOrResult)

\* a variant that wants a result when there is no error
CheckErrorOfNeedsResult(resp) ==
    IF resp.error.some THEN Err(ErrRpc(resp.error.v))
    ELSE IF resp.result.some THEN Ok(Unit)
    ELSE Err(ErrNoErrorOrResult)

\* Response::check_error(self)
CheckErrorOf(resp) ==
    IF resp.error.some THEN Err(ErrRpc(resp.error.v)) ELSE Ok(Unit)

\* a variant that is true only when error is absent too
IsNoneOfNothingAtAll(resp) == ~resp.result.some /\ ~resp.error.some

\* Response::is_none(&self)
IsNoneOf(resp) == ~resp.result.some

\* the Responses the methods are applied to
ResultFields ==
    {None, Some(JNull), Some(JBool(TRUE)), Some(JNum(5)), Some(JStr("test2")),
     Some(JArr(<<JStr("Mary"), JStr("had")>>)),
     Some(JArr(<<JNull, JBool(FALSE)>>)),
     Some(JObj([k |-> JArr(<<JNull, JObj([n |-> JNum(1)])>>)]))}
ErrorFields ==
    {None,
     Some(RpcError(-77, "test4", Some(JBool(TRUE)))),
     Some(RpcError(1, "", None))}
IdFields == {JNum(101), JNull}
VersionFields == {Some("2.0"), None}

Responses ==
    {Response(r, e, i, j) :
        r \in ResultFields, e \in ErrorFields, i \in IdFields, j \in VersionFields}

InitExtract ==
    /\ InitClient
    /\ response \in Responses
    /\ moved = FALSE
    /\ out = NoOut

\* let x: T = response.result()
Result(T) ==
    /\ ~moved
    /\ out' = [op |-> "result", T |-> T, val |-> ResultOf(response, T)]
    /\ UNCHANGED <<response, moved, clientVars, configVars>>

\* let x: T = response.into_result(), or response.clone().into_result()
IntoResult(T, onClone) ==
    /\ ~moved
    /\ out' = [op |-> "into_result", T |-> T, val |-> IntoResultOf(response, T)]
    /\ moved' = ~onClone
    /\ UNCHANGED <<response, clientVars, configVars>>

\* response.check_error(), or response.clone().check_error()
CheckError(onClone) ==
    /\ ~moved
    /\ out' = [op |-> "check_error", val |-> CheckErrorOf(response)]
    /\ moved' = ~onClone
    /\ UNCHANGED <<response, clientVars, configVars>>

\* response.is_none()
IsNone ==
    /\ ~moved
    /\ out' = [op |-> "is_none", val |-> IsNoneOf(response)]
    /\ UNCHANGED <<response, moved, clientVars, configVars>>

\* the Requests that are serialised
Requests ==
    {Request(name, params, i, j) :
        name \in Methods,
        params \in ParamLists \cup {<<>>, <<JArr(<<JNull>>), JObj([k |-> JNull])>>},
        i \in {JStr("69"), JNum(1), JNull},
        j \in {Some("2.0"), None}}

\* Json::from_serialize(&original).unwrap().into_deserialize() on a Request
RoundTripRequest(request) ==
    /\ out' = [op |-> "request_round_trip", input |-> request,
               val |-> DeserializeRequest(SerializeRequest(request))]
    /\ UNCHANGED <<response, moved, clientVars, configVars>>

\* Json::from_serialize(&original).unwrap().into_deserialize() on the Response
RoundTripResponse ==
    /\ ~moved
    /\ out' = [op |-> "response_round_trip",
               val |-> DeserializeResponse(SerializeResponse(response))]
    /\ UNCHANGED <<response, moved, clientVars, configVars>>

NextExtract ==
    \/ \E request \in Requests : RoundTripRequest(request)
    \/ RoundTripResponse
    \/ \E T \in TargetTypes : Result(T)
    \/ \E T \in TargetTypes, onClone \in BOOLEAN : IntoResult(T, onClone)
    \/ \E onClone \in BOOLEAN : CheckError(onClone)
    \/ IsNone

SpecExtract == InitExtract /\ [][NextExtract]_vars

(***************************************************************************)
(* Properties of the Client, under Spec                                    *)
(***************************************************************************)
\* the latest call was an execute whose transport call delivered a body
\* that decodes into a Response
RetDecodes ==
    /\ ret.op = "execute"
    /\ ret.sendOk
    /\ FromReader(ret.body).ok
    /\ DeserializeResponse(FromReader(ret.body).v).ok

\* that Response
RetReply == DeserializeResponse(FromReader(ret.body).v).v

\* C1: the ids build_request has returned are pairwise distinct, whatever the
\* interleaving of the calls; once every call that began has returned, the
\* counter equals the number of calls, and that is what last_nonce returns.
C1_NonceUnique ==
    /\ \A i, j \in 1..Len(built) : i # j => built[i] # built[j]
    /\ (\A t \in Threads : ~InBuild(t)) => nonce = Len(built)
    /\ (ret.op = "last_nonce" /\ ~ret.busy) => ret.val = ret.calls

C1_Witness ==
    /\ Len(built) >= 2
    /\ ret.op = "last_nonce"
    /\ ret.val = Len(built)
    /\ \E t \in Threads : req[t].some /\ req[t].v.id = JNum(1)
    /\ \E t \in Threads : req[t].some /\ req[t].v.id = JNum(2)

\* C2: the Request build_request returns has as id the counter value its own
\* increment produced, jsonrpc "2.0", and the method and params it was given,
\* params in the given order; the k-th call to return has id k.
C2_BuildRequestResult ==
    /\ ret.op = "build_request" =>
        /\ ret.val.id = JNum(ret.inc)
        /\ ret.val.jsonrpc = Some("2.0")
        /\ ret.val.method = ret.name
        /\ ret.val.params = ret.params
    /\ \A k \in 1..Len(built) : built[k] = JNum(k)

C2_Witness ==
    /\ ret.op = "build_request"
    /\ Len(built) = 2
    /\ ret.val = Request("stop", <<JStr("test2"), JNull>>, JNum(2), Some("2.0"))

\* C3: execute returns Ok(response) only with response.id equal to the
\* request's id, and then returns the decoded reply; a reply that decodes with
\* jsonrpc "2.0" and another id (of the same or another JSON type) makes
\* execute fail with NonceMismatch.
C3_NonceChecked ==
    ret.op = "execute" =>
        /\ ret.val.ok =>
            /\ ret.val.v.id = ret.request.id
            /\ RetDecodes /\ ret.val.v = RetReply
        /\ (RetDecodes /\ RetReply.jsonrpc = Some("2.0")
                /\ RetReply.id # ret.request.id)
            => ret.val = Err(ErrNonceMismatch)

C3_Witness ==
    /\ RetDecodes
    /\ ret.request.id = JNum(1)
    /\ RetReply.id = JStr("1")
    /\ RetReply.jsonrpc = Some("2.0")
    /\ ret.val = Err(ErrNonceMismatch)

\* C4, as the claim states it: execute fails with VersionMismatch exactly
\* when the decoded reply's jsonrpc is present and not "2.0"; a decoded reply
\* without jsonrpc whose id is the request's is returned as Ok.
C4_AbsentVersionAccepted ==
    ret.op = "execute" =>
        /\ ret.val = Err(ErrVersionMismatch)
            <=> (RetDecodes /\ RetReply.jsonrpc.some
                    /\ RetReply.jsonrpc.v # "2.0")
        /\ (RetDecodes /\ ~RetReply.jsonrpc.some
                /\ RetReply.id = ret.request.id)
            => ret.val = Ok(RetReply)

\* C4, amended: execute fails with VersionMismatch exactly when the decoded
\* reply's jsonrpc is absent or not "2.0"; a decoded reply without jsonrpc
\* fails with VersionMismatch also when its id is the request's.
C4_VersionRequired ==
    ret.op = "execute" =>
        /\ ret.val = Err(ErrVersionMismatch)
            <=> (RetDecodes /\ RetReply.jsonrpc # Some("2.0"))
        /\ (RetDecodes /\ ~RetReply.jsonrpc.some
                /\ RetReply.id = ret.request.id)
            => ret.val = Err(ErrVersionMismatch)

C4_Witness ==
    /\ RetDecodes
    /\ ~RetReply.jsonrpc.some
    /\ RetReply.id = ret.request.id
    /\ ret.val = Err(ErrVersionMismatch)

\* C5: the first failing check of execute decides its error, in the order
\* transport, decode, version, nonce: a failed transport call gives the
\* transport error whatever the body, a body that does not decode gives the
\* decode error, a reply with a wrong jsonrpc gives VersionMismatch also when
\* its id is wrong, and NonceMismatch is given only once all the earlier
\* checks have passed.
C5_ValidationOrder ==
    ret.op = "execute" =>
        /\ ~ret.sendOk => ret.val = Err(ErrTransport)
        /\ (ret.sendOk /\ ~RetDecodes)
            => (~ret.val.ok /\ ret.val.err.kind = "Json")
        /\ (RetDecodes /\ RetReply.jsonrpc.some /\ RetReply.jsonrpc.v # "2.0")
            => ret.val = Err(ErrVersionMismatch)
        /\ ret.val = Err(ErrNonceMismatch)
            => (RetDecodes /\ RetReply.jsonrpc = Some("2.0")
                    /\ RetReply.id # ret.request.id)

C5_Witness ==
    /\ RetDecodes
    /\ RetReply.jsonrpc = Some("1.0")
    /\ RetReply.id # ret.request.id
    /\ ret.val = Err(ErrVersionMismatch)

\* C11: the guard of the counter is held only inside build_request, from
\* the lock to the return, and never by a thread waiting on the transport;
\* while one thread's execute waits, a build_request of another thread can
\* take each of its steps.
C11_LockNotHeldDuringExecute ==
    /\ \A t \in Threads : lockHolder = t => InBuild(t)
    /\ \A t, u \in Threads : (pc[t] = "ex_wait" /\ u # t) =>
        /\ (pc[u] = "idle" /\ Started < MaxCalls)
            => \A name \in Methods, params \in ParamLists :
                ENABLED BrLock(u, name, params)
        /\ pc[u] = "br_locked" => ENABLED BrIncrement(u)
        /\ pc[u] = "br_incremented" => ENABLED BrReturn(u)

C11_Witness ==
    /\ pc["t1"] = "ex_wait"
    /\ frame["t1"].request.id = JNum(1)
    /\ ret.op = "build_request"
    /\ ret.thread = "t2"
    /\ ret.overlap
    /\ ret.val.id = JNum(2)

\* C12: a Client that Client::new returned never has a password without a
\* user name.
C12_PasswordNeedsUser ==
    made = "yes" => (pass.some => user.some)

\* the errors execute returns
ExecuteErrorKinds == {"Transport", "Json", "VersionMismatch", "NonceMismatch"}

\* C13: whatever the transport call comes back with (a failure, bytes that are
\* no JSON, JSON that is no Response, a Response of any version and id, with
\* both, one or none of result and error), execute returns Ok(response) or
\* Err of a typed error: it never panics, and it returns Ok only for a reply
\* that was delivered and decoded.
C13_ExecuteAlwaysReturns ==
    ret.op = "execute" =>
        /\ "ok" \in DOMAIN ret.val
        /\ ~ret.val.ok => ret.val.err.kind \in ExecuteErrorKinds
        /\ ret.val.ok => (RetDecodes /\ ret.val = Ok(RetReply))
        /\ (~ret.sendOk \/ ~RetDecodes) => ~ret.val.ok

C13_Witness ==
    /\ ret.op = "execute"
    /\ ret.sendOk
    /\ ret.body = JsonText(JObj([result |-> JBool(TRUE)]))
    /\ ret.val = Err(ErrJson("invalid type"))

\* C14: an execute calls the transport once: a waiting execute has sent
\* once, an execute whose transport call failed returns the transport error
\* having sent once, and so does one that ends in any other error or in Ok.
C14_SingleSend ==
    /\ \A t \in Threads : pc[t] = "ex_wait" => frame[t].sends = 1
    /\ ret.op = "execute" =>
        /\ ret.sends = 1
        /\ ~ret.sendOk => ret.val = Err(ErrTransport)

C14_Witness ==
    /\ ret.op = "execute"
    /\ ~ret.sendOk
    /\ ret.sends = 1
    /\ ret.val = Err(ErrTransport)

\* the build_request calls that have made their increment
Incremented == Len(built) + Cardinality({t \in Threads : pc[t] = "br_incremented"})

\* C16: only the increment step of build_request changes the counter, and by
\* +1; every step of execute and last_nonce (whatever execute returns) and
\* the other steps of build_request leave it as it is; so the counter never
\* decreases and always equals the number of build_request calls that have
\* made their increment.
C16_NonceFrame ==
    [][/\ nonce' # nonce =>
            /\ nonce' = nonce + 1
            /\ \E t \in Threads :
                pc[t] = "br_locked" /\ pc'[t] = "br_incremented"
       /\ ret' # ret /\ ret'.op \in {"execute", "last_nonce"} => nonce' = nonce
       /\ nonce' >= nonce
       /\ nonce' = Incremented']_vars

C16_Witness ==
    /\ ret.op = "execute"
    /\ ret.val.ok
    /\ nonce = 2
    /\ Len(built) = 2
    /\ \E t \in Threads : pc[t] = "ex_wait"

\* C17: when execute returns Ok(response), response.jsonrpc is Some("2.0");
\* a reply that decodes with jsonrpc absent or any other string makes execute
\* fail with VersionMismatch, whatever its id.
C17_OkHasVersion ==
    ret.op = "execute" =>
        /\ ret.val.ok => ret.val.v.jsonrpc = Some("2.0")
        /\ (RetDecodes /\ RetReply.jsonrpc # Some("2.0"))
            => ret.val = Err(ErrVersionMismatch)

C17_Witness ==
    /\ RetDecodes
    /\ RetReply.jsonrpc = Some("1.0")
    /\ RetReply.id = ret.request.id
    /\ ret.val = Err(ErrVersionMismatch)

(***************************************************************************)
(* Properties of the extraction methods, under SpecExtract                 *)
(***************************************************************************)
\* C6: whenever the Response's error is present, result::<T>() fails with
\* Error::Rpc carrying that RpcError (same code, message and data), whether
\* or not result is present too; it returns neither the result value nor a
\* decode error nor NoErrorOrResult.
C6_ErrorPrecedence ==
    (out.op = "result" /\ response.error.some) =>
        /\ ~out.val.ok
        /\ out.val.err.kind = "Rpc"
        /\ out.val.err.error.code = response.error.v.code
        /\ out.val.err.error.message = response.error.v.message
        /\ out.val.err.error.data = response.error.v.data

C6_Witness ==
    /\ out.op = "result"
    /\ out.T = "VecString"
    /\ response.result = Some(JArr(<<JStr("Mary"), JStr("had")>>))
    /\ response.error.some
    /\ out.val = Err(ErrRpc(RpcError(-77, "test4", Some(JBool(TRUE)))))

\* C7: for every Response and every T, result::<T>() and into_result::<T>()
\* have the same outcome; result::<T>() leaves the Response as it was and
\* usable, so an into_result::<T>() that follows it has the outcome it had.
C7_ExtractionEquivalence ==
    [][/\ out'.op \in {"result", "into_result"} =>
            /\ out'.val = ResultOf(response, out'.T)
            /\ out'.val = IntoResultOf(response, out'.T)
       /\ out'.op = "result" => (response' = response /\ moved' = moved)
       /\ (out.op = "result" /\ out'.op = "into_result" /\ out'.T = out.T)
            => out'.val = out.val]_vars

C7_Witness ==
    /\ out.op = "into_result"
    /\ out.T = "VecString"
    /\ moved
    /\ out.val = Ok(<<"VecString", <<"Mary", "had">> >>)
    /\ ResultOf(response, "VecString") = out.val

\* C8: result::<T>() and into_result::<T>() fail with NoErrorOrResult when
\* result and error are both absent, and in no other case; check_error never
\* fails with it.
C8_NoErrorOrResult ==
    /\ out.op \in {"result", "into_result"} =>
        (out.val = Err(ErrNoErrorOrResult)
            <=> (~response.result.some /\ ~response.error.some))
    /\ out.op = "check_error" => out.val # Err(ErrNoErrorOrResult)

C8_Witness ==
    /\ out.op = "into_result"
    /\ ~response.result.some
    /\ ~response.error.some
    /\ out.val = Err(ErrNoErrorOrResult)

\* C9: is_none() is true iff result is absent, whether error is present or
\* absent, and it leaves the Response as it was.
C9_IsNone ==
    [][out'.op = "is_none" =>
        /\ out'.val = (response.result = None)
        /\ response' = response
        /\ moved' = moved]_vars

C9_Witness ==
    /\ out.op = "is_none"
    /\ out.val = TRUE
    /\ ~response.result.some
    /\ response.error.some

\* C10: check_error() returns Ok exactly when error is absent and otherwise
\* fails with Error::Rpc carrying the Response's RpcError; whatever the result
\* field is, the outcome is the same.
C10_CheckError ==
    out.op = "check_error" =>
        /\ out.val.ok <=> ~response.error.some
        /\ response.error.some => out.val = Err(ErrRpc(response.error.v))
        /\ \A r \in ResultFields :
            CheckErrorOf([response EXCEPT !.result = r]) = out.val

C10_Witness ==
    /\ out.op = "check_error"
    /\ out.val = Ok(Unit)
    /\ ~response.result.some
    /\ ~response.error.some

====
